---- MODULE Spec2Model ----
(***************************************************************************)
(* A model of src/main.rs of the speedometer: the render loop of main and  *)
(* draw_speedometer, with the f32 arithmetic of the angle computations     *)
(* carried out bit for bit (IEEE-754 binary32, round to nearest even).     *)
(***************************************************************************)
EXTENDS Integers, Sequences, FiniteSets, TLC

(***************************************************************************)
(* Bounds of the model.                                                    *)
(***************************************************************************)
\* Render cycles the main loop is followed for.
MaxCycles == 4
\* DrawSpec draws the value handed to draw_speedometer from -SpeedBound..SpeedBound.
SpeedBound == 125

(***************************************************************************)
(* f32.  A value is [s, m, e]: (-1)^s * m * 2^e with m = 0 (zero, e = 0)   *)
(* or 2^23 <= m < 2^24.  Subnormals, infinities and NaN are out of the     *)
(* range of every value the loop computes and are not represented.        *)
(***************************************************************************)
TwoTo12 == 2 ^ 12
TwoTo22 == 2 ^ 22
TwoTo23 == 2 ^ 23
TwoTo24 == 2 ^ 24
TwoTo26 == 2 ^ 26
TwoTo27 == 2 ^ 27

F32Zero == [s |-> 0, m |-> 0, e |-> 0]

RECURSIVE F32Norm(_, _, _)
\* The f32 of the integer magnitude m * 2^e, m < 2^24 (exact: no rounding).
F32Norm(s, m, e) ==
    IF m = 0 THEN F32Zero
    ELSE IF m < TwoTo23 THEN F32Norm(s, 2 * m, e - 1)
    ELSE [s |-> s, m |-> m, e |-> e]

\* `n as f32`, and the f32 literals of the source, for |n| < 2^24.
F32FromInt(n) == IF n < 0 THEN F32Norm(1, -n, 0) ELSE F32Norm(0, n, 0)

\* Round to nearest, ties to even: mantissa m (24 bits) with remainder rem
\* out of 2 * half below it.
F32Round(s, m, e, rem, half) ==
    LET up == rem > half \/ (rem = half /\ m % 2 = 1)
        m1 == IF up THEN m + 1 ELSE m
    IN  IF m1 = TwoTo24 THEN [s |-> s, m |-> TwoTo23, e |-> e + 1]
        ELSE [s |-> s, m |-> m1, e |-> e]

\* a * b.  The 48-bit product of the mantissas is formed from 12-bit limbs.
F32Mul(a, b) ==
    IF a.m = 0 \/ b.m = 0 THEN F32Zero
    ELSE
    LET s   == (a.s + b.s) % 2
        a1  == a.m \div TwoTo12
        a0  == a.m % TwoTo12
        b1  == b.m \div TwoTo12
        b0  == b.m % TwoTo12
        mid == a1 * b0 + a0 * b1
        low == (mid % TwoTo12) * TwoTo12 + a0 * b0
        H   == a1 * b1 + (mid \div TwoTo12) + (low \div TwoTo24)
        L   == low % TwoTo24
    IN  IF H >= TwoTo23
        THEN F32Round(s, H, a.e + b.e + 24, L, TwoTo23)
        ELSE F32Round(s, 2 * H + (L \div TwoTo23), a.e + b.e + 23,
                      L % TwoTo23, TwoTo22)

RECURSIVE LongDiv(_, _, _, _)
\* <<quotient, remainder>> of (q * d + r) * 2^k by d, one bit at a time.
LongDiv(q, r, d, k) ==
    IF k = 0 THEN <<q, r>>
    ELSE LongDiv(2 * q + ((2 * r) \div d), (2 * r) % d, d, k - 1)

\* a / b, b # 0.
F32Div(a, b) ==
    IF a.m = 0 THEN F32Zero
    ELSE
    LET s  == (a.s + b.s) % 2
        k  == IF a.m < b.m THEN 24 ELSE 23
        qr == LongDiv(a.m \div b.m, a.m % b.m, b.m, k)
    IN  \* remainder r against b.m / 2: compare 2r with b.m
        F32Round(s, qr[1], a.e - b.e - k, 2 * qr[2], b.m)

\* m shifted right by d bits, the bits shifted out kept as a sticky low bit.
ShiftRightSticky(m, d) ==
    IF d = 0 THEN m
    ELSE IF d > 27 THEN (IF m # 0 THEN 1 ELSE 0)
    ELSE LET q == m \div (2 ^ d)
         IN  IF m % (2 ^ d) # 0 /\ q % 2 = 0 THEN q + 1 ELSE q

RECURSIVE F32Pack(_, _, _)
\* The f32 nearest to M * 2^E, M < 2^28 carrying three guard bits.
F32Pack(s, M, E) ==
    IF M = 0 THEN F32Zero
    ELSE IF M < TwoTo26 THEN F32Pack(s, 2 * M, E - 1)
    ELSE IF M >= TwoTo27 THEN F32Pack(s, ShiftRightSticky(M, 1), E + 1)
    ELSE F32Round(s, M \div 8, E + 3, M % 8, 4)

\* a + b.
F32Add(a, b) ==
    IF a.m = 0 THEN b
    ELSE IF b.m = 0 THEN a
    ELSE
    LET big   == IF a.e > b.e \/ (a.e = b.e /\ a.m >= b.m) THEN a ELSE b
        small == IF a.e > b.e \/ (a.e = b.e /\ a.m >= b.m) THEN b ELSE a
        B     == 8 * big.m
        S     == ShiftRightSticky(8 * small.m, big.e - small.e)
    IN  IF big.s = small.s
        THEN F32Pack(big.s, B + S, big.e - 3)
        ELSE F32Pack(big.s, B - S, big.e - 3)

\* `x as i32` for |x| < 2^31: truncation toward zero.
F32ToI32(x) ==
    LET mag == IF x.m = 0 THEN 0
               ELSE IF x.e >= 0 THEN x.m * (2 ^ x.e)
               ELSE IF -x.e >= 24 THEN 0
               ELSE x.m \div (2 ^ (-x.e))
    IN  IF x.s = 1 THEN -mag ELSE mag

\* a <= b.
F32Le(a, b) ==
    LET MagLe(x, y) == \/ x.m = 0
                       \/ (y.m # 0 /\ (x.e < y.e \/ (x.e = y.e /\ x.m <= y.m)))
    IN  IF a.s = 1 /\ a.m # 0
        THEN (b.s = 0 \/ b.m = 0) \/ MagLe(b, a)
        ELSE (b.s = 0 \/ b.m = 0) /\ MagLe(a, b)

\* The IEEE-754 bit pattern of x as a signed magnitude (the sign bit as the
\* sign of the integer).
F32Bits(x) ==
    LET mag == IF x.m = 0 THEN 0 ELSE (x.e + 150) * TwoTo23 + (x.m - TwoTo23)
    IN  IF x.s = 1 THEN -mag ELSE mag

\* The f32 of a signed-magnitude bit pattern.
F32OfBits(b) ==
    LET mag == IF b < 0 THEN -b ELSE b
    IN  IF mag = 0 THEN F32Zero
        ELSE [s |-> IF b < 0 THEN 1 ELSE 0,
              m |-> (mag % TwoTo23) + TwoTo23,
              e |-> (mag \div TwoTo23) - 150]

(***************************************************************************)
(* cos and sin.  f32::cos and f32::sin are library functions; their values *)
(* at the angles the program reaches (the 13 tick angles, the 13 angles    *)
(* tick + START_ANGLE, and speed_to_angle of every whole speed in         *)
(* -160..160) are tabulated: <<angle, cos(angle), sin(angle)>>, each the   *)
(* f32 bit pattern as F32Bits gives it, the correctly rounded value.      *)
(***************************************************************************)
TrigRows ==
    {
      <<-1065749138, 1056964607, -1063105496>>, <<-1065529526, 1057342069, -1062880930>>, <<-1065266612, 1057713522, -1062646560>>,
      <<-1064827380, 1058078720, -1062402543>>, <<-1064388148, 1058437405, -1062149050>>, <<-1063948924, 1058789324, -1061886258>>,
      <<-1063509700, 1059134245, -1061614345>>, <<-1063070476, 1059471929, -1061333496>>, <<-1062631248, 1059802148, -1061043902>>,
      <<-1062192020, 1060124674, -1060745762>>, <<-1061752796, 1060439282, -1060439284>>, <<-1061313568, 1060745763, -1060124673>>,
      <<-1060874344, 1061043900, -1059802150>>, <<-1060435116, 1061333495, -1059471931>>, <<-1059995892, 1061614344, -1059134247>>,
      <<-1059556664, 1061886259, -1058789323>>, <<-1059117440, 1062149050, -1058437404>>, <<-1058678212, 1062402542, -1058078722>>,
      <<-1058238980, 1062646559, -1057713524>>, <<-1057799752, 1062880930, -1057342068>>, <<-1057360528, 1063105496, -1056964605>>,
      <<-1056877992, 1063320106, -1056198177>>, <<-1055999544, 1063524609, -1055420784>>, <<-1055121088, 1063718869, -1054632943>>,
      <<-1054242640, 1063902749, -1053835209>>, <<-1053364184, 1064076127, -1053028115>>, <<-1052485736, 1064238880, -1052212227>>,
      <<-1051607280, 1064390900, -1051388091>>, <<-1050728832, 1064532080, -1050556286>>, <<-1049850376, 1064662326, -1049717367>>,
      <<-1048971928, 1064781545, -1048871924>>, <<-1047610944, 1064889660, -1047465043>>, <<-1045854048, 1064986593, -1045751517>>,
      <<-1044097120, 1065072280, -1044028398>>, <<-1042340208, 1065146661, -1042296912>>, <<-1040583312, 1065209685, -1040558247>>,
      <<-1037465408, 1065261309, -1037439733>>, <<-1033951616, 1065301497, -1033940782>>, <<-1029076800, 1065330223, -1029070379>>,
      <<-1020688256, 1065347467, -1020686650>>, <<0, 1065353216, 0>>, <<1020688256, 1065347467, 1020686650>>,
      <<1029076800, 1065330223, 1029070379>>, <<1033951616, 1065301497, 1033940782>>, <<1037465440, 1065261308, 1037439765>>,
      <<1040583312, 1065209685, 1040558247>>, <<1042340224, 1065146660, 1042296927>>, <<1044097120, 1065072280, 1044028398>>,
      <<1045854032, 1064986594, 1045751502>>, <<1047610928, 1064889661, 1047465028>>, <<1048971920, 1064781546, 1048871916>>,
      <<1049850376, 1064662326, 1049717367>>, <<1050728832, 1064532080, 1050556286>>, <<1051607280, 1064390900, 1051388091>>,
      <<1052485736, 1064238880, 1052212227>>, <<1053364184, 1064076127, 1053028115>>, <<1054242640, 1063902749, 1053835209>>,
      <<1055121088, 1063718869, 1054632943>>, <<1055999544, 1063524609, 1055420784>>, <<1056878000, 1063320104, 1056198184>>,
      <<1057360532, 1063105494, 1056964610>>, <<1057799756, 1062880928, 1057342071>>, <<1058238984, 1062646557, 1057713528>>,
      <<1058678208, 1062402544, 1058078719>>, <<1059117436, 1062149053, 1058437400>>, <<1059556660, 1061886262, 1058789320>>,
      <<1059995888, 1061614346, 1059134244>>, <<1060435116, 1061333495, 1059471931>>, <<1060874344, 1061043900, 1059802150>>,
      <<1061313568, 1060745763, 1060124673>>, <<1061752796, 1060439282, 1060439284>>, <<1062192020, 1060124674, 1060745762>>,
      <<1062631248, 1059802148, 1061043902>>, <<1063070472, 1059471932, 1061333494>>, <<1063509704, 1059134241, 1061614348>>,
      <<1063948928, 1058789321, 1061886261>>, <<1064388156, 1058437398, 1062149054>>, <<1064827380, 1058078720, 1062402543>>,
      <<1065266608, 1057713526, 1062646558>>, <<1065529524, 1057342072, 1062880928>>, <<1065749138, 1056964607, 1063105496>>,
      <<1065968750, 1056198187, 1063320104>>, <<1066188366, 1055420779, 1063524611>>, <<1066407978, 1054632945, 1063718869>>,
      <<1066627591, 1053835208, 1063902750>>, <<1066847204, 1053028117, 1064076126>>, <<1067066817, 1052212226, 1064238880>>,
      <<1067286430, 1051388093, 1064390900>>, <<1067506043, 1050556284, 1064532080>>, <<1067725658, 1049717362, 1064662326>>,
      <<1067945271, 1048871915, 1064781547>>, <<1068164884, 1047465033, 1064889660>>, <<1068384497, 1045751499, 1064986594>>,
      <<1068604110, 1044028403, 1065072280>>, <<1068823723, 1042296925, 1065146661>>, <<1069043336, 1040558252, 1065209684>>,
      <<1069262949, 1037439759, 1065261309>>, <<1069482564, 1033940760, 1065301498>>, <<1069702177, 1029070367, 1065330223>>,
      <<1069921790, 1020686563, 1065347467>>, <<1070141403, -859553070, 1065353216>>, <<1070361016, -1020686610, 1065347467>>,
      <<1070580630, -1029070422, 1065330223>>, <<1070800243, -1033940788, 1065301497>>, <<1071019856, -1037439755, 1065261309>>,
      <<1071239469, -1040558250, 1065209685>>, <<1071459083, -1042296930, 1065146660>>, <<1071678696, -1044028408, 1065072280>>,
      <<1071898309, -1045751505, 1064986593>>, <<1072117922, -1047465039, 1064889660>>, <<1072337536, -1048871922, 1064781546>>,
      <<1072557149, -1049717368, 1064662325>>, <<1072776762, -1050556283, 1064532080>>, <<1072996375, -1051388092, 1064390900>>,
      <<1073215989, -1052212229, 1064238880>>, <<1073435602, -1053028120, 1064076126>>, <<1073655215, -1053835211, 1063902749>>,
      <<1073808326, -1054632948, 1063718868>>, <<1073918133, -1055420789, 1063524608>>, <<1074027940, -1056198189, 1063320103>>,
      <<1074137746, -1056964609, 1063105495>>, <<1074247553, -1057342073, 1062880927>>, <<1074357359, -1057713527, 1062646557>>,
      <<1074467166, -1058078721, 1062402542>>, <<1074576972, -1058437399, 1062149053>>, <<1074686779, -1058789322, 1061886260>>,
      <<1074796586, -1059134246, 1061614344>>, <<1074906392, -1059471930, 1061333495>>, <<1075016199, -1059802150, 1061043901>>,
      <<1075126006, -1060124675, 1060745761>>, <<1075235812, -1060439283, 1060439283>>, <<1075345619, -1060745764, 1060124672>>,
      <<1075455426, -1061043903, 1059802146>>, <<1075565232, -1061333496, 1059471930>>, <<1075675039, -1061614347, 1059134242>>,
      <<1075784846, -1061886263, 1058789319>>, <<1075894652, -1062149054, 1058437399>>, <<1076004459, -1062402545, 1058078718>>,
      <<1076114265, -1062646557, 1057713527>>, <<1076224072, -1062880929, 1057342070>>, <<1076333878, -1063105495, 1056964609>>,
      <<1076443685, -1063320105, 1056198182>>, <<1076553492, -1063524610, 1055420781>>, <<1076663298, -1063718868, 1054632948>>,
      <<1076773105, -1063902750, 1053835207>>, <<1076882912, -1064076128, 1053028112>>, <<1076992718, -1064238881, 1052212224>>,
      <<1077102525, -1064390901, 1051388088>>, <<1077212332, -1064532082, 1050556275>>, <<1077322138, -1064662326, 1049717364>>,
      <<1077431945, -1064781547, 1048871914>>, <<1077541751, -1064889660, 1047465038>>, <<1077651558, -1064986594, 1045751496>>,
      <<1077761365, -1065072280, 1044028392>>, <<1077871171, -1065146661, 1042296922>>, <<1077980978, -1065209685, 1040558241>>,
      <<1078090784, -1065261309, 1037439753>>, <<1078200591, -1065301498, 1033940770>>, <<1078310398, -1065330224, 1029070355>>,
      <<1078420204, -1065347467, 1020686604>>, <<1078530011, -1065353216, -867941678>>, <<1078639818, -1065347467, -1020686697>>,
      <<1078749624, -1065330223, -1029070402>>, <<1078859431, -1065301497, -1033940794>>, <<1078969238, -1065261308, -1037439777>>,
      <<1079079044, -1065209684, -1040558253>>, <<1079188851, -1065146660, -1042296933>>, <<1079298657, -1065072280, -1044028403>>,
      <<1079408464, -1064986593, -1045751508>>, <<1079518271, -1064889659, -1047465049>>, <<1079628077, -1064781546, -1048871919>>,
      <<1079737884, -1064662325, -1049717370>>, <<1079847690, -1064532081, -1050556281>>, <<1079957497, -1064390900, -1051388094>>,
      <<1080067304, -1064238880, -1052212230>>, <<1080177110, -1064076126, -1053028117>>, <<1080286917, -1063902749, -1053835212>>,
      <<1080396724, -1063718867, -1054632953>>, <<1080506530, -1063524609, -1055420787>>, <<1080616337, -1063320103, -1056198187>>,
      <<1080726144, -1063105493, -1056964611>>, <<1080835950, -1062880928, -1057342072>>, <<1080945757, -1062646556, -1057713529>>,
      <<1081055563, -1062402543, -1058078720>>, <<1081165370, -1062149052, -1058437402>>, <<1081275176, -1061886261, -1058789321>>,
      <<1081384983, -1061614345, -1059134245>>, <<1081494790, -1061333494, -1059471932>>, <<1081604596, -1061043901, -1059802149>>,
      <<1081714403, -1060745762, -1060124674>>, <<1081824210, -1060439281, -1060439285>>, <<1081934016, -1060124673, -1060745763>>,
      <<1082043823, -1059802147, -1061043902>>, <<1082142031, -1059471928, -1061333497>>, <<1082196934, -1059134243, -1061614346>>,
      <<1082251837, -1058789323, -1061886259>>, <<1082306741, -1058437397, -1062149055>>, <<1082361644, -1058078719, -1062402544>>,
      <<1082416547, -1057713528, -1062646557>>, <<1082471450, -1057342074, -1062880926>>, <<1082526354, -1056964605, -1063105496>>,
      <<1082581257, -1056198184, -1063320104>>, <<1082636160, -1055420791, -1063524608>>, <<1082691064, -1054632943, -1063718869>>,
      <<1082745967, -1053835209, -1063902749>>, <<1082800870, -1053028122, -1064076126>>, <<1082855774, -1052212219, -1064238882>>,
      <<1082910677, -1051388091, -1064390900>>, <<1082965580, -1050556285, -1064532080>>, <<1083020484, -1049717359, -1064662327>>,
      <<1083075387, -1048871916, -1064781547>>, <<1083130290, -1047465043, -1064889660>>, <<1083185194, -1045751485, -1064986594>>,
      <<1083240097, -1044028397, -1065072280>>, <<1083295000, -1042296927, -1065146660>>, <<1083349904, -1040558230, -1065209685>>,
      <<1083404807, -1037439732, -1065261309>>, <<1083459710, -1033940780, -1065301497>>, <<1083514614, -1029070312, -1065330224>>,
      <<1083569517, -1020686516, -1065347467>>, <<1083624420, 843898414, -1065353216>>, <<1083679324, 1020686785, -1065347467>>,
      <<1083734227, 1029070446, -1065330223>>, <<1083789130, 1033940783, -1065301497>>, <<1083844034, 1037439799, -1065261308>>,
      <<1083898937, 1040558263, -1065209684>>, <<1083953840, 1042296928, -1065146660>>, <<1084008744, 1044028430, -1065072279>>,
      <<1084063647, 1045751518, -1064986593>>, <<1084118550, 1047465044, -1064889660>>, <<1084173453, 1048871917, -1064781546>>,
      <<1084173454, 1048871932, -1064781544>>, <<1084228356, 1049717360, -1064662327>>, <<1084283260, 1050556286, -1064532080>>,
      <<1084338164, 1051388106, -1064390897>>, <<1084393067, 1052212235, -1064238879>>, <<1084447970, 1053028123, -1064076125>>,
      <<1084502873, 1053835210, -1063902749>>, <<1084557776, 1054632944, -1063718869>>, <<1084612680, 1055420791, -1063524607>>,
      <<1084667584, 1056198199, -1063320100>>, <<1084722486, 1056964605, -1063105496>>, <<1084777390, 1057342075, -1062880926>>,
      <<1084832293, 1057713528, -1062646556>>, <<1084887196, 1058078719, -1062402544>>, <<1084942100, 1058437404, -1062149050>>,
      <<1084997003, 1058789324, -1061886259>>, <<1085051906, 1059134244, -1061614346>>, <<1085106810, 1059471934, -1061333492>>,
      <<1085161713, 1059802151, -1061043900>>, <<1085216616, 1060124673, -1060745762>>, <<1085271520, 1060439287, -1060439279>>,
      <<1085326423, 1060745765, -1060124671>>, <<1085381326, 1061043902, -1059802148>>, <<1085436230, 1061333499, -1059471926>>,
      <<1085491133, 1061614348, -1059134241>>, <<1085546036, 1061886261, -1058789321>>, <<1085600940, 1062149057, -1058437395>>,
      <<1085655843, 1062402545, -1058078716>>, <<1085710746, 1062646558, -1057713525>>, <<1085765650, 1062880932, -1057342065>>,
      <<1085820552, 1063105494, -1056964611>>, <<1085820553, 1063105498, -1056964600>>, <<1085875456, 1063320106, -1056198179>>,
      <<1085930360, 1063524612, -1055420772>>, <<1085985263, 1063718871, -1054632938>>, <<1086040166, 1063902751, -1053835204>>,
      <<1086095070, 1064076130, -1053028102>>, <<1086149972, 1064238880, -1052212229>>, <<1086204876, 1064390901, -1051388085>>,
      <<1086259779, 1064532081, -1050556280>>, <<1086314682, 1064662325, -1049717369>>, <<1086369586, 1064781547, -1048871911>>,
      <<1086424490, 1064889662, -1047465001>>, <<1086479392, 1064986593, -1045751506>>, <<1086534296, 1065072281, -1044028386>>,
      <<1086589199, 1065146661, -1042296916>>, <<1086644102, 1065209685, -1040558251>>, <<1086699006, 1065261309, -1037439710>>,
      <<1086753909, 1065301498, -1033940758>>, <<1086808812, 1065330223, -1029070396>>, <<1086863716, 1065347467, -1020686429>>,
      <<1086918619, 1065353216, 876330286>>, <<1086973522, 1065347467, 1020686616>>, <<1087028426, 1065330223, 1029070489>>,
      <<1087083329, 1065301497, 1033940805>>, <<1087138232, 1065261309, 1037439757>>, <<1087193136, 1065209684, 1040558274>>,
      <<1087248038, 1065146661, 1042296907>>, <<1087302942, 1065072280, 1044028409>>, <<1087357846, 1064986592, 1045751529>>,
      <<1087412749, 1064889659, 1047465055>>, <<1087467652, 1064781546, 1048871922>>, <<1087522556, 1064662324, 1049717380>>,
      <<1087577459, 1064532079, 1050556291>>, <<1087632362, 1064390899, 1051388096>>, <<1087687266, 1064238878, 1052212240>>,
      <<1087742168, 1064076127, 1053028113>>, <<1087797072, 1063902748, 1053835215>>, <<1087851975, 1063718868, 1054632948>>,
      <<1087906878, 1063524610, 1055420782>>, <<1087961782, 1063320103, 1056198190>>, <<1088016685, 1063105495, 1056964609>>,
      <<1088016686, 1063105491, 1056964616>>, <<1088071588, 1062880929, 1057342070>>, <<1088126492, 1062646555, 1057713530>>,
      <<1088181396, 1062402538, 1058078728>>, <<1088236299, 1062149049, 1058437406>>, <<1088291202, 1061886257, 1058789326>>,
      <<1088346106, 1061614339, 1059134252>>, <<1088401008, 1061333495, 1059471930>>, <<1088455912, 1061043898, 1059802153>>,
      <<1088510815, 1060745761, 1060124675>>, <<1088565718, 1060439283, 1060439283>>, <<1088620622, 1060124669, 1060745767>>,
      <<1088675525, 1059802146, 1061043903>>, <<1088730428, 1059471930, 1061333496>>, <<1088785332, 1059134239, 1061614350>>,
      <<1088840234, 1058789325, 1061886258>>, <<1088895138, 1058437399, 1062149054>>, <<1088950042, 1058078714, 1062402547>>,
      <<1089004946, 1057713516, 1062646564>>, <<1089059848, 1057342070, 1062880929>>, <<1089114752, 1056964595, 1063105499>>,
      <<1089663784, 1048871921, 1064781546>>, <<1090212818, -884299325, 1065353216>>, <<1090640446, -1048871943, 1064781543>>,
      <<1090914962, -1056964611, 1063105493>>, <<1091189479, -1060439291, 1060439275>>, <<1091463995, -1063105496, 1056964604>>,
      <<1091738512, -1064781549, 1048871900>>, <<1092013028, -1065353216, -852287022>>
    }

TrigTable == [k \in {r[1] : r \in TrigRows} |-> CHOOSE r \in TrigRows : r[1] = k]

\* angle.cos()
F32Cos(angle) == F32OfBits(TrigTable[F32Bits(angle)][2])

\* angle.sin()
F32Sin(angle) == F32OfBits(TrigTable[F32Bits(angle)][3])

(***************************************************************************)
(* The constants of draw_speedometer.                                      *)
(***************************************************************************)
PI == F32OfBits(1078530011)          \* std::f32::consts::PI, 0x40490FDB
START_ANGLE == PI
TICK_LENGTH == 20
DEFAULT_TEXT_RADIUS == 15
TEXT_WIDTH_3_DIGIT == 18
TEXT_WIDTH_2_DIGIT == 12
TEXT_WIDTH_1_DIGIT == 6
TEXT_HEIGHT == 13
NEEDLE_LENGTH == 92
TEXT_OFFSET_Y == 40
SPEED_TEXT_WIDTH_3_DIGIT == 48
SPEED_TEXT_WIDTH_2_DIGIT == 32
SPEED_TEXT_WIDTH_1_DIGIT == 16
UNIT_TEXT == "mi/hr"
RADIUS == 112
\* speed_text_style.font.character_size.height: PROFONT_24_POINT is 16 x 30.
SPEED_FONT_HEIGHT == 30

Point(x, y) == [x |-> x, y |-> y]
PointAdd(p, q) == Point(p.x + q.x, p.y + q.y)
PointSub(p, q) == Point(p.x - q.x, p.y - q.y)

UNIT_TEXT_POS == Point(95, 179)
CENTER == Point(119, 119)
TOP_LEFT == Point(8, 8)

\* Point::new((angle.cos() * r as f32) as i32, (angle.sin() * r as f32) as i32)
Polar(angle, r) ==
    Point(F32ToI32(F32Mul(F32Cos(angle), F32FromInt(r))),
          F32ToI32(F32Mul(F32Sin(angle), F32FromInt(r))))

(***************************************************************************)
(* Formatting.                                                             *)
(***************************************************************************)
Digit == <<"0", "1", "2", "3", "4", "5", "6", "7", "8", "9">>

RECURSIVE NatToString(_)
NatToString(n) ==
    IF n < 10 THEN Digit[n + 1]
    ELSE NatToString(n \div 10) \o Digit[(n % 10) + 1]

\* format!("{:2}", number): decimal, right-aligned in a field of 2.
FormatWidth2(number) ==
    LET t == NatToString(number)
    IN  IF Len(t) < 2 THEN " " \o t ELSE t

\* format!("{}", speed) of a whole-valued f32 below 2^31: the digits of the
\* integer with no fraction, "-" before a negative one.
FormatF32(speed) ==
    LET n == F32ToI32(speed)
    IN  IF speed.s = 1 THEN "-" \o NatToString(-n) ELSE NatToString(n)

(***************************************************************************)
(* Surface operations.  One record shape for all: the call (prim), its     *)
(* arguments, and the role the call has in the frame (kind, i).            *)
(***************************************************************************)
SurfaceOp(kind, i, prim, a, b, n, text, style) ==
    [kind |-> kind, i |-> i, prim |-> prim, a |-> a, b |-> b, n |-> n,
     text |-> text, style |-> style]

NoPoint == Point(0, 0)

\* display_driver.clear()
ClearOp == SurfaceOp("clear", 0, "clear", NoPoint, NoPoint, 0, "", "")

\* display_driver.flush()
FlushOp == SurfaceOp("flush", 0, "flush", NoPoint, NoPoint, 0, "", "")

\* Circle::new(TOP_LEFT, RADIUS as u32 * 2).into_styled(circle_style)
DialCircle ==
    SurfaceOp("circle", 0, "circle", TOP_LEFT, TOP_LEFT, RADIUS * 2, "",
              "NEON_GREEN/4")

\* let angle = (i as f32 * 2.0 * PI / 24.0) + START_ANGLE;
TickAngle(i) ==
    F32Add(F32Div(F32Mul(F32Mul(F32FromInt(i), F32FromInt(2)), PI),
                  F32FromInt(24)),
           START_ANGLE)

\* Mutant: the stroke widths of major and minor ticks exchanged.
TickStrokeSwapped(i) == IF i % 2 = 0 THEN 1 ELSE 3

\* if i % 2 == 0 { 3 } else { 1 }
TickStroke(i) == IF i % 2 = 0 THEN 3 ELSE 1

\* Line::new(outer_end, inner_end) with stroke NEON_GREEN
TickLine(i) ==
    LET angle     == TickAngle(i)
        outer_end == PointAdd(CENTER, Polar(angle, RADIUS))
        inner_end == PointAdd(CENTER, Polar(angle, RADIUS - TICK_LENGTH))
    IN  SurfaceOp("tick", i, "line", outer_end, inner_end, TickStroke(i), "",
                  "NEON_GREEN")

\* match number { 1..=9 => .., 10..=99 => .., 100..=999 => .., _ => .. }
NumberWidth(number) ==
    IF number >= 1 /\ number <= 9 THEN TEXT_WIDTH_1_DIGIT
    ELSE IF number >= 10 /\ number <= 99 THEN TEXT_WIDTH_2_DIGIT
    ELSE IF number >= 100 /\ number <= 999 THEN TEXT_WIDTH_3_DIGIT
    ELSE TEXT_WIDTH_3_DIGIT

\* CENTER - Point::new(text_angle.cos() * 77, text_angle.sin() * 77): the
\* point the label of tick i is centred on.
LabelReference(i) ==
    LET text_angle == F32Add(TickAngle(i), START_ANGLE)
    IN  PointSub(CENTER,
                 Polar(text_angle, RADIUS - (DEFAULT_TEXT_RADIUS + TICK_LENGTH)))

\* text_pos of the label of tick i
LabelPos(i) ==
    LET number            == i * 10
        number_width      == NumberWidth(number)
        text_offset       == Point(number_width \div 2, TEXT_HEIGHT \div 2)
        additional_offset == Point(1, 9)
    IN  PointAdd(PointSub(LabelReference(i), text_offset), additional_offset)

\* Text::new(&format!("{:2}", number), text_pos, text_style)
TickLabel(i) ==
    SurfaceOp("label", i, "text", LabelPos(i), NoPoint, 0,
              FormatWidth2(i * 10), "FONT_6X13_BOLD")

\* Mutant: all the tick lines first, then all the labels.
TickLoopTicksFirst(i) ==
    [k \in 1..13 |-> TickLine(k - 1)] \o [k \in 1..7 |-> TickLabel(2 * (k - 1))]

RECURSIVE TickLoop(_)
\* for i in 0..=12 { tick line; if i % 2 == 0 { label } }, from index i on.
TickLoop(i) ==
    IF i > 12 THEN << >>
    ELSE (IF i % 2 = 0 THEN <<TickLine(i), TickLabel(i)>> ELSE <<TickLine(i)>>)
         \o TickLoop(i + 1)

\* The primitives of the tick loop, in the order the loop draws them.
DialTicks == TickLoop(0)

\* Mutant: the speed clamped to 0..120 before the projection.
speed_to_angle_clamped(speed, start_angle) ==
    LET c == IF speed.s = 1 THEN F32Zero
             ELSE IF F32ToI32(speed) > 120 THEN F32FromInt(120) ELSE speed
    IN  F32Add(F32Mul(F32Div(F32Mul(F32FromInt(8), c), F32FromInt(960)), PI),
               start_angle)

\* Mutant: the needle turning the other way round.
speed_to_angle_reversed(speed, start_angle) ==
    F32Add(F32Mul(F32Div(F32Mul(F32FromInt(-8), speed), F32FromInt(960)), PI),
           start_angle)

\* ((8.0*speed)/960.0) * std::f32::consts::PI + start_angle
speed_to_angle(speed, start_angle) ==
    F32Add(F32Mul(F32Div(F32Mul(F32FromInt(8), speed), F32FromInt(960)), PI),
           start_angle)

\* Line::new(CENTER, needle_end) with stroke RED, 2
NeedleLine(speed) ==
    LET angle      == speed_to_angle(speed, START_ANGLE)
        needle_end == PointAdd(CENTER, Polar(angle, NEEDLE_LENGTH))
    IN  SurfaceOp("needle", 0, "line", CENTER, needle_end, 2, "", "RED")

\* Mutant: the width measured from the string, 16 px a character.
SpeedTextWidthMeasured(len) == len * 16

\* match speed_text.len() { 1 => .., 2 => .., 3 => .., _ => .. }
SpeedTextWidth(len) ==
    IF len = 1 THEN SPEED_TEXT_WIDTH_1_DIGIT
    ELSE IF len = 2 THEN SPEED_TEXT_WIDTH_2_DIGIT
    ELSE IF len = 3 THEN SPEED_TEXT_WIDTH_3_DIGIT
    ELSE SPEED_TEXT_WIDTH_3_DIGIT

\* text_pos of the value readout
SpeedTextPos(speed_text) ==
    LET speed_text_width == SpeedTextWidth(Len(speed_text))
        text_offset == Point(speed_text_width \div 2, SPEED_FONT_HEIGHT \div 2)
    IN  PointAdd(PointSub(CENTER, text_offset), Point(1, TEXT_OFFSET_Y))

\* Text::new(&speed_text, text_pos, speed_text_style)
SpeedText(speed) ==
    LET speed_text == FormatF32(speed)
    IN  SurfaceOp("value", 0, "text", SpeedTextPos(speed_text), NoPoint, 0,
                  speed_text, "PROFONT_24_POINT")

\* Text::new(UNIT_TEXT, UNIT_TEXT_POS, unit_text_style)
UnitText ==
    SurfaceOp("unit", 0, "text", UNIT_TEXT_POS, NoPoint, 0, UNIT_TEXT,
              "FONT_10X20")

\* The draw calls of draw_speedometer(display, speed, ..) in program order.
DrawList(speed) ==
    <<DialCircle>> \o DialTicks
        \o <<NeedleLine(speed), SpeedText(speed), UnitText>>

\* The number of draw calls of one draw_speedometer.
NPrims == Len(<<DialCircle>> \o DialTicks) + 3

\* Mutant: best effort, every draw call made whatever the earlier ones
\* returned.
draw_best_effort(speed, failAt) ==
    LET list == DrawList(speed)
    IN  [issued |-> list,
         drawn  |-> SelectSeq(list, LAMBDA o : failAt = 0 \/ o # list[failAt]),
         failed |-> failAt,
         result |-> IF failAt = 0 THEN "Ok" ELSE "Err"]

\* draw_speedometer when its failAt-th draw call returns Err (0: none does).
\* Every call ends in `?`: the first Err returns from the function, so the
\* calls after it are not made.  issued: the calls made; drawn: the calls
\* that returned Ok.
draw_speedometer(speed, failAt) ==
    LET list == DrawList(speed)
    IN  IF failAt = 0
        THEN [issued |-> list, drawn |-> list, failed |-> 0, result |-> "Ok"]
        ELSE [issued |-> SubSeq(list, 1, failAt),
              drawn  |-> SubSeq(list, 1, failAt - 1),
              failed |-> failAt,
              result |-> "Err"]

(***************************************************************************)
(* The render loop of main.                                                *)
(***************************************************************************)
VARIABLES
    speed,     \* main's `speed`, an f32
    pc,        \* the statement of the loop body main is at
    buffer,    \* the driver's frame buffer: the primitives drawn since clear
    screen,    \* the panel: the buffer as last flushed
    ops,       \* the surface calls of the current cycle, each with its result
    reading,   \* the value handed to the last draw_speedometer call
    cycles,    \* completed iterations of the loop
    events     \* change notifications main has received: main opens no
               \* notification channel and reads no value source

vars == <<speed, pc, buffer, screen, ops, reading, cycles, events>>

\* A surface call and whether it returned Ok.
Call(op, ok) == [op |-> op, ok |-> ok]

\* The calls of a draw_speedometer run, the failed one marked.
Calls(r) ==
    [k \in 1..Len(r.issued) |-> Call(r.issued[k], k # r.failed)]

\* Mutant: the Result unwrapped, an Err ending the loop.
AfterDrawUnwrap(result) == IF result = "Err" THEN "exit" ELSE "flush"

\* draw_speedometer(..).ok(): the Result is discarded, main goes on to flush.
AfterDraw(result) == "flush"

\* display_driver.flush().ok(): the Result is discarded, the loop goes round.
AfterFlush(ok) == "clear"

\* Mutant: clear leaving the frame buffer as it is.
ClearedNothing(b) == b

\* display_driver.clear(): the frame buffer emptied.
Cleared(b) == << >>

\* speed += 1.0
NextSpeed(s) == F32Add(s, F32FromInt(1))

\* let mut speed = 0.0; and the state of the display after init.
Init ==
    /\ speed = F32Zero
    /\ pc = "clear"
    /\ buffer = << >>
    /\ screen = << >>
    /\ ops = << >>
    /\ reading = F32Zero
    /\ cycles = 0
    /\ events = 0

\* Mutant: the head of the loop waiting for a change event.
ClearOnEvent ==
    /\ pc = "clear"
    /\ cycles < MaxCycles
    /\ events > cycles
    /\ buffer' = Cleared(buffer)
    /\ ops' = <<Call(ClearOp, TRUE)>>
    /\ pc' = "draw"
    /\ UNCHANGED <<speed, screen, reading, cycles, events>>

\* display_driver.clear();
Clear ==
    /\ pc = "clear"
    /\ cycles < MaxCycles
    /\ buffer' = Cleared(buffer)
    /\ ops' = <<Call(ClearOp, TRUE)>>
    /\ pc' = "draw"
    /\ UNCHANGED <<speed, screen, reading, cycles, events>>

\* draw_speedometer(&mut display_driver, speed, ..).ok();
Draw ==
    /\ pc = "draw"
    /\ \E failAt \in 0..NPrims :
         LET r == draw_speedometer(speed, failAt)
         IN  /\ buffer' = buffer \o r.drawn
             /\ ops' = ops \o Calls(r)
             /\ pc' = AfterDraw(r.result)
    /\ reading' = speed
    /\ UNCHANGED <<speed, screen, cycles, events>>

\* display_driver.flush().ok(); speed += 1.0;
\* A flush that returns Err is taken to leave the panel as it was.
Flush ==
    /\ pc = "flush"
    /\ \E ok \in BOOLEAN :
         /\ screen' = IF ok THEN buffer ELSE screen
         /\ ops' = Append(ops, Call(FlushOp, ok))
         /\ pc' = AfterFlush(ok)
    /\ speed' = NextSpeed(speed)
    /\ cycles' = cycles + 1
    /\ UNCHANGED <<buffer, reading, events>>

Next == Clear \/ Draw \/ Flush

Spec == Init /\ [][Next]_vars

(***************************************************************************)
(* draw_speedometer as a function of its argument: one cycle of the loop   *)
(* from any whole speed in -SpeedBound..SpeedBound, over a frame buffer    *)
(* and a panel that hold nothing or an earlier frame.                      *)
(***************************************************************************)
EarlierFrames == { << >>, DrawList(F32FromInt(88)) }

InitDraw ==
    /\ speed \in { F32FromInt(n) : n \in (-SpeedBound)..SpeedBound }
    /\ pc = "clear"
    /\ buffer \in EarlierFrames
    /\ screen \in EarlierFrames
    /\ ops = << >>
    /\ reading = F32Zero
    /\ cycles = MaxCycles - 1
    /\ events = 0

DrawSpec == InitDraw /\ [][Next]_vars

(***************************************************************************)
(* Vocabulary of the properties.                                           *)
(***************************************************************************)
Last(q) == q[Len(q)]

\* The k-th call of the cycle is a draw call (not clear, not flush).
IsDraw(k) == ops[k].op.kind \notin {"clear", "flush"}

\* Some draw call of the cycle returned Err.
DrawFailed == \E k \in 1..Len(ops) : IsDraw(k) /\ ~ops[k].ok

\* Some surface call of the cycle returned Err.
SurfaceFailed == \E k \in 1..Len(ops) : ~ops[k].ok

\* draw_speedometer has returned in the current cycle.
DrawReturned == ops # << >> /\ pc \in {"flush", "clear"}

\* The cycle is complete: its flush has been requested.
CycleComplete == ops # << >> /\ pc = "clear"

\* The calls of the cycle of a given role.
CallsOf(kind) == { k \in 1..Len(ops) : ops[k].op.kind = kind }

\* The number of render cycles begun.
CyclesBegun == cycles + (IF pc = "clear" THEN 0 ELSE 1)

Tag(k) == <<ops[k].op.kind, ops[k].op.i>>

\* The order C2 states: every tick segment, then every label.
ClaimedOrder ==
    <<  <<"clear", 0>>, <<"circle", 0>>,
        <<"tick", 0>>, <<"tick", 1>>, <<"tick", 2>>, <<"tick", 3>>,
        <<"tick", 4>>, <<"tick", 5>>, <<"tick", 6>>, <<"tick", 7>>,
        <<"tick", 8>>, <<"tick", 9>>, <<"tick", 10>>, <<"tick", 11>>,
        <<"tick", 12>>,
        <<"label", 0>>, <<"label", 2>>, <<"label", 4>>, <<"label", 6>>,
        <<"label", 8>>, <<"label", 10>>, <<"label", 12>>,
        <<"needle", 0>>, <<"value", 0>>, <<"unit", 0>>, <<"flush", 0>> >>

\* The order of the program: each label right after its own tick.
ProgramOrder ==
    <<  <<"clear", 0>>, <<"circle", 0>>,
        <<"tick", 0>>, <<"label", 0>>, <<"tick", 1>>,
        <<"tick", 2>>, <<"label", 2>>, <<"tick", 3>>,
        <<"tick", 4>>, <<"label", 4>>, <<"tick", 5>>,
        <<"tick", 6>>, <<"label", 6>>, <<"tick", 7>>,
        <<"tick", 8>>, <<"label", 8>>, <<"tick", 9>>,
        <<"tick", 10>>, <<"label", 10>>, <<"tick", 11>>,
        <<"tick", 12>>, <<"label", 12>>,
        <<"needle", 0>>, <<"value", 0>>, <<"unit", 0>>, <<"flush", 0>> >>

\* The calls of the cycle follow `order`: call k is order[k], except that a
\* flush may come early, as the last call, right after a failed draw call.
Follows(order) ==
    \A k \in 1..Len(ops) :
        IF ops[k].op.kind = "flush" /\ k < Len(order)
        THEN k = Len(ops) /\ k > 1 /\ ~ops[k - 1].ok
        ELSE k <= Len(order) /\ Tag(k) = order[k]

\* C2 as stated: the calls of a cycle are clear, circle, all tick segments,
\* all major-tick labels, needle, value readout, unit label, flush; every
\* tick segment is drawn before any major-tick label.
C2_TicksThenLabels ==
    /\ Follows(ClaimedOrder)
    /\ \A j \in CallsOf("tick"), k \in CallsOf("label") : j < k

\* C2 amended: the calls of a cycle are clear, circle, then for i = 0..12 in
\* turn the tick segment i followed at once (even i) by the label of tick i,
\* then needle, value readout, unit label, flush; nothing before clear,
\* nothing after flush.
C2_TickThenItsLabel ==
    /\ Follows(ProgramOrder)
    /\ (CycleComplete => Last(ops).op = FlushOp)
    /\ (CycleComplete /\ ~DrawFailed => Len(ops) = Len(ProgramOrder))

\* A cycle completed with every call Ok: all 26 calls were made.
C2_Witness ==
    CycleComplete /\ ~SurfaceFailed /\ Len(ops) = 26
        /\ Tag(4) = <<"label", 0>> /\ Tag(5) = <<"tick", 1>>

C4_NoEscalation ==
    /\ [](/\ pc \in {"clear", "draw", "flush"}
          /\ (CycleComplete /\ SurfaceFailed /\ cycles < MaxCycles
                => ENABLED Clear))
    /\ [][/\ (pc = "draw" => pc' = "flush")
          /\ (pc = "flush" => pc' = "clear" /\ Last(ops').op = FlushOp
                               /\ Len(ops') = Len(ops) + 1)
          /\ (pc = "clear" => pc' = "draw" /\ ops' = <<Call(ClearOp, TRUE)>>)
         ]_vars

\* A new cycle has begun with a clear while the panel shows the partial
\* frame of an earlier cycle whose draw_speedometer failed.
C4_Witness ==
    /\ pc = "draw"
    /\ ops = <<Call(ClearOp, TRUE)>>
    /\ Len(screen) > 0 /\ Len(screen) < NPrims
    /\ cycles > 0

(***************************************************************************)
(* C5                                                                      *)
(***************************************************************************)
\* start_angle + (v / 120) * pi, in f32.
ClaimedAngle(v, start_angle) ==
    F32Add(start_angle, F32Mul(F32Div(v, F32FromInt(120)), PI))

\* v < 0 < ... as f32 comparisons.
F32Lt(a, b) == ~F32Le(b, a)

LabelShown ==
    [i \in {0, 2, 4, 6, 8, 10, 12} |->
        CASE i = 0 -> " 0" [] i = 2 -> "20" [] i = 4 -> "40" [] i = 6 -> "60"
          [] i = 8 -> "80" [] i = 10 -> "100" [] i = 12 -> "120"]

\* C6: every draw_speedometer that returns without a surface error has drawn
\* exactly 13 tick segments, of indices 0..12, the segment i with stroke 3
\* when i is even and 1 when i is odd, and exactly 7 labels, one for each
\* even i, showing 0, 20, ..., 120.
C6_TicksAndLabels ==
    DrawReturned /\ ~DrawFailed =>
        /\ Cardinality(CallsOf("tick")) = 13
        /\ { ops[k].op.i : k \in CallsOf("tick") } = 0..12
        /\ \A k \in CallsOf("tick") :
             /\ ops[k].op.prim = "line"
             /\ ops[k].op.n = (IF ops[k].op.i % 2 = 0 THEN 3 ELSE 1)
        /\ Cardinality(CallsOf("label")) = 7
        /\ { ops[k].op.i : k \in CallsOf("label") } = {0, 2, 4, 6, 8, 10, 12}
        /\ \A k \in CallsOf("label") :
             /\ ops[k].op.prim = "text"
             /\ ops[k].op.text = LabelShown[ops[k].op.i]

\* A cycle completed without error; its last label shows 120.
C6_Witness ==
    /\ CycleComplete /\ ~SurfaceFailed
    /\ \E k \in CallsOf("label") : ops[k].op.text = "120" /\ ops[k].op.i = 12
    /\ \E k \in CallsOf("tick") : ops[k].op.i = 11 /\ ops[k].op.n = 1

(***************************************************************************)
(* C7                                                                      *)
(***************************************************************************)
\* The operations of the current cycle, without their results.
Issued == [k \in 1..Len(ops) |-> ops[k].op]

WidthByDigits(n) ==
    IF n < 10 THEN TEXT_WIDTH_1_DIGIT
    ELSE IF n < 100 THEN TEXT_WIDTH_2_DIGIT
    ELSE TEXT_WIDTH_3_DIGIT

\* C8: for every major-tick label number n in {0, 20, ..., 120} the width
\* that centres the label is the table entry of n's digit count (6, 12, 18)
\* and the anchor is reference_point - (width / 2, 6) + (1, 9).
C8_WidthByDigitCount ==
    \A k \in CallsOf("label") :
        LET i == ops[k].op.i
            w == WidthByDigits(i * 10)
        IN  ops[k].op.a =
              PointAdd(PointSub(LabelReference(i), Point(w \div 2, 6)),
                       Point(1, 9))

(***************************************************************************)
(* C9                                                                      *)
(***************************************************************************)
\* The readout width table by character count.
WidthByChars(len) ==
    CASE len = 1 -> 16 [] len = 2 -> 32 [] len = 3 -> 48 [] OTHER -> 48

\* C9: the width that centres the value readout depends only on the number
\* of characters of the formatted value: 16, 32, 48 for 1, 2, 3 characters
\* and 48 for every longer string; the readout is drawn for every length
\* (it follows every needle that was drawn), anchored at
\* CENTER - (width / 2, font_height / 2) + (1, 40).
C9_ReadoutWidth ==
    /\ \A k \in CallsOf("needle") :
         DrawReturned /\ ops[k].ok => ops[k + 1].op.kind = "value"
    /\ \A k \in CallsOf("value") :
         LET t == ops[k].op.text
             w == WidthByChars(Len(t))
         IN  /\ t = FormatF32(reading)
             /\ ops[k].op.prim = "text"
             /\ ops[k].op.a =
                  PointAdd(PointSub(CENTER,
                                    Point(w \div 2, SPEED_FONT_HEIGHT \div 2)),
                           Point(1, 40))
    /\ \A v \in {1000, 1001, 12345, -1000, 100000, 1234567} :
         LET r == SpeedText(F32FromInt(v))
         IN  Len(r.text) >= 4 /\ r.a = Point(120 - 48 \div 2, 119 - 15 + 40)

\* The readout "-100", of four characters, was drawn in the 48 px bucket.
C9_Witness ==
    /\ pc = "flush"
    /\ \E k \in CallsOf("value") :
         /\ ops[k].ok
         /\ ops[k].op.text = "-100"
         /\ Len(ops[k].op.text) = 4
         /\ ops[k].op.a = Point(96, 144)

(***************************************************************************)
(* C10                                                                     *)
(***************************************************************************)
MajorTicks == {0, 2, 4, 6, 8, 10, 12}

\* C10 as stated: for every major tick i the needle angle of the value
\* 10 * i, the number printed at the tick, equals the angle of tick i.
C10_NeedleAtTick ==
    \A i \in MajorTicks :
        reading = F32FromInt(10 * i) /\ CallsOf("needle") # {} =>
            speed_to_angle(reading, START_ANGLE) = TickAngle(i)

\* C10 amended: for every major tick i other than 10 the needle angle of the
\* value 10 * i equals the angle of tick i and the needle ends on the inner
\* end of the tick; for i = 10 (value 100) the needle angle is the f32 next
\* below the tick angle and the needle ends one pixel from the inner end of
\* the tick.
C10_NeedleNearTick ==
    \A i \in MajorTicks :
        reading = F32FromInt(10 * i) =>
            \A k \in CallsOf("needle") :
                LET a == speed_to_angle(reading, START_ANGLE)
                    t == TickLine(i).b
                    n == ops[k].op.b
                IN  IF i # 10
                    THEN a = TickAngle(i) /\ n = t
                    ELSE /\ F32Bits(TickAngle(i)) - F32Bits(a) = 1
                         /\ n.x = t.x
                         /\ n.y = t.y - 1

\* The needle was drawn for 100: it ends at (198, 73), the inner end of the
\* tick labelled 100 is (198, 74).
C10_Witness ==
    /\ pc = "flush"
    /\ reading = F32FromInt(100)
    /\ \E k \in CallsOf("needle") : ops[k].ok /\ ops[k].op.b = Point(198, 73)
    /\ TickLine(10).b = Point(198, 74)

====
